---- MODULE Spec2Model ----
(***************************************************************************)
(* Model of panel_code.py: the editable holdings table (summary_table),    *)
(* the edit handler handle_cell_edit, the change counter (patches) and the *)
(* two bound chart functions candlestick and portfolio_distribution.       *)
(*                                                                         *)
(* Money is counted in cents (integers); a row index is 0-based as in the  *)
(* DataFrame's RangeIndex.                                                 *)
(***************************************************************************)
EXTENDS Integers, Sequences, FiniteSets, TLC

\* ---------------------------------------------------------------- bounds
\* Number of rows of the table that are modelled (a prefix of EQUITY_LIST).
NumRows == 2
\* Last close prices are drawn from {50, 100, ..., 50 * MaxPrice} cents.
MaxPrice == 2
\* Quantities a user types are drawn from 0..MaxQty.
MaxQty == 1
\* Number of cell edits in a run.
MaxEdits == 2
\* Number of handler invocations one client edit may cause before the
\* dispatch loop is cut off.
MaxDispatch == 3

\* ------------------------------------------------- constants of the source
EQUITY_LIST ==
    <<"AAPL", "MSFT", "AMZN", "GOOGL", "TSLA", "BRK-B", "UNH", "JNJ">>

EQUITIES ==
    <<"Apple", "Microsoft", "Amazon", "Alphabet", "Tesla",
      "Berkshire Hathaway", "United Health Group", "Johnson & Johnson">>

InitialQuantity == <<75, 40, 100, 50, 40, 60, 20, 40>>

InitialAction ==
    <<"buy", "sell", "hold", "hold", "hold", "hold", "hold", "hold">>

\* editors["notes"]["elementAttributes"]["maxlength"]
maxlength == 100

\* The columns whose editor is not None.
editors == {"quantity", "action", "notes"}

ActionValues == {"buy", "sell", "hold"}

Rows == 0 .. (NumRows - 1)

Prices == {50 * k : k \in 1 .. MaxPrice}

Fill(n) == [i \in 1 .. n |-> "x"]

\* What a user may type into a cell of each editable column.
Typed(column) ==
    CASE column = "quantity" -> 0 .. MaxQty
      [] column = "action"   -> ActionValues
      [] column = "notes"    ->
            {Fill(n) : n \in {0, maxlength, maxlength + 1}}

VARIABLES
    historical_data,  \* ticker -> last close price (cents), fixed after load
    summary_table,    \* row -> record of the cells of that row
    patches,          \* patches.value, the change counter
    selection,        \* summary_table.selection: <<>> or <<row>>
    price_chart,      \* result of the latest candlestick evaluation
    pie_chart,        \* result of the latest portfolio_distribution evaluation
    lastEvent,        \* the latest cell edit and its outcome
    userEdits,        \* number of cell edits made by the user
    handlerCalls,     \* number of invocations of handle_cell_edit
    valueWrites       \* number of writes to the value column

vars == <<historical_data, summary_table, patches, selection, price_chart,
          pie_chart, lastEvent, userEdits, handlerCalls, valueWrites>>

\* ------------------------------------------------------------ construction
last_close(ticker, data) == data[ticker]

get_value_series_NoPrice(data) ==
    [r \in DOMAIN data |-> data[r].quantity]

get_value_series(data) ==
    [r \in DOMAIN data |-> data[r].quantity * data[r].price]

summary_data_dict(data) ==
    [r \in Rows |->
        [ticker   |-> EQUITY_LIST[r + 1],
         company  |-> EQUITIES[r + 1],
         quantity |-> InitialQuantity[r + 1],
         price    |-> last_close(EQUITY_LIST[r + 1], data),
         value    |-> 0,
         action   |-> InitialAction[r + 1],
         notes    |-> <<>>]]

summary_data(data) ==
    LET df == summary_data_dict(data)
        series == get_value_series(df)
    IN [r \in Rows |-> [df[r] EXCEPT !.value = series[r]]]

\* ------------------------------------------------------------------ charts
RECURSIVE SumValue(_, _)
SumValue(data, n) ==
    IF n = 0 THEN 0 ELSE data[n - 1].value + SumValue(data, n - 1)

\* f"{portfolio_total:,.0f}": cents rounded to whole dollars, ties to even.
FormatTotal(cents) ==
    LET q == cents \div 100
        rem == cents % 100
    IN IF rem > 50 THEN q + 1
       ELSE IF rem = 50 THEN q + (q % 2)
       ELSE q

portfolio_distribution_Shares(data) ==
    LET portfolio_total == SumValue(data, NumRows)
    IN [status |-> IF portfolio_total = 0 THEN "error" ELSE "ok",
        total  |-> portfolio_total,
        title  |-> FormatTotal(portfolio_total),
        values |-> [r \in Rows |->
                      IF portfolio_total = 0 THEN 0
                      ELSE (100 * data[r].value) \div portfolio_total],
        names  |-> [r \in Rows |-> data[r].ticker]]

portfolio_distribution(data) ==
    LET portfolio_total == SumValue(data, NumRows)
    IN [status |-> "ok",
        total  |-> portfolio_total,
        title  |-> FormatTotal(portfolio_total),
        values |-> [r \in Rows |-> data[r].value],
        names  |-> [r \in Rows |-> data[r].ticker]]

candlestick_FirstRow(sel, data) ==
    IF sel = <<>>
    THEN [ticker |-> "AAPL", company |-> "Apple"]
    ELSE [ticker |-> data[0].ticker, company |-> data[0].company]

candlestick(sel, data) ==
    IF sel = <<>>
    THEN [ticker |-> "AAPL", company |-> "Apple"]
    ELSE LET index == sel[1]
         IN [ticker |-> data[index].ticker, company |-> data[index].company]

\* ------------------------------------------------------------ cell editing
\* The value the cell editor of a column commits for what was typed.
\* A textarea with maxlength lets at most maxlength characters in.
EditorValue_NoLimit(column, input) == input

EditorValue(column, input) ==
    IF column = "notes"
    THEN SubSeq(input, 1, IF Len(input) < maxlength THEN Len(input)
                          ELSE maxlength)
    ELSE input

\* The table widget stores the committed cell before it calls the
\* on_edit callbacks.
CellEdit(table, row, column, value) ==
    [table EXCEPT ![row][column] = value]

\* table.patch({"value": [(row, value)]})
patch_AllRows(table, row, value) ==
    [r \in DOMAIN table |-> [table[r] EXCEPT !.value = value]]

patch(table, row, value) ==
    [table EXCEPT ![row].value = value]

\* The edit events a patch raises: a patch is applied on the server side
\* and on_edit callbacks run for edits made in the table only.
patch_events_Reentrant(row, value) ==
    <<[row |-> row, column |-> "value", value |-> value]>>

patch_events(row, value) == <<>>

\* patches.value = n; portfolio_distribution is bound to patches and is
\* evaluated again when the value changes.
set_patches(s, n) ==
    [s EXCEPT !.patches = n,
              !.pie = IF n # s.patches
                      THEN portfolio_distribution(s.table) ELSE s.pie]

handle_cell_edit_CounterFirst(s, event, priceOk) ==
    IF event.column = "quantity"
    THEN IF ~priceOk
         THEN [s EXCEPT !.raised = TRUE]
         ELSE LET quantity == event.value
                  price == s.table[event.row].price
                  value == quantity * price
                  s1 == set_patches(s, s.patches + 1)
              IN [s1 EXCEPT !.table = patch(s.table, event.row, value),
                            !.writes = s.writes + 1,
                            !.emitted = patch_events(event.row, value)]
    ELSE s

handle_cell_edit_Dedented(s, event, priceOk) ==
    IF event.column = "quantity"
    THEN IF ~priceOk
         THEN [s EXCEPT !.raised = TRUE]
         ELSE LET quantity == event.value
                  price == s.table[event.row].price
                  value == quantity * price
                  s1 == [s EXCEPT !.table = patch(s.table, event.row, value),
                                  !.writes = s.writes + 1,
                                  !.emitted = patch_events(event.row, value)]
              IN set_patches(s1, s1.patches + 1)
    ELSE set_patches(s, s.patches + 1)

handle_cell_edit_NoIncrement(s, event, priceOk) ==
    IF event.column = "quantity"
    THEN IF ~priceOk
         THEN [s EXCEPT !.raised = TRUE]
         ELSE LET quantity == event.value
                  price == s.table[event.row].price
                  value == quantity * price
              IN [s EXCEPT !.table = patch(s.table, event.row, value),
                           !.writes = s.writes + 1,
                           !.emitted = patch_events(event.row, value)]
    ELSE s

handle_cell_edit(s, event, priceOk) ==
    IF event.column = "quantity"
    THEN IF ~priceOk
         THEN [s EXCEPT !.raised = TRUE]
         ELSE LET quantity == event.value
                  price == s.table[event.row].price
                  value == quantity * price
                  s1 == [s EXCEPT !.table = patch(s.table, event.row, value),
                                  !.writes = s.writes + 1,
                                  !.emitted = patch_events(event.row, value)]
              IN set_patches(s1, s1.patches + 1)
    ELSE s

\* summary_table.on_edit(handle_cell_edit): the callback runs once for each
\* edit event, the events raised while it runs included.
RECURSIVE on_edit(_, _, _, _)
on_edit(s, queue, priceOk, fuel) ==
    IF queue = <<>> \/ fuel = 0 \/ s.raised
    THEN s
    ELSE LET s1 == handle_cell_edit(
                      [s EXCEPT !.calls = s.calls + 1, !.emitted = <<>>],
                      Head(queue), priceOk)
         IN on_edit(s1, Tail(queue) \o s1.emitted, priceOk, fuel - 1)

\* ------------------------------------------------------------------ state
NoEvent ==
    [row |-> -1, column |-> "none", typed |-> 0, value |-> 0,
     failed |-> FALSE]

Init ==
    /\ historical_data \in [{EQUITY_LIST[r + 1] : r \in Rows} -> Prices]
    /\ summary_table = summary_data(historical_data)
    /\ patches = 0
    /\ selection = <<>>
    /\ price_chart = candlestick(<<>>, summary_table)
    /\ pie_chart = portfolio_distribution(summary_table)
    /\ lastEvent = NoEvent
    /\ userEdits = 0
    /\ handlerCalls = 0
    /\ valueWrites = 0

\* A cell edit made in the table, from the editor to the end of the on_edit
\* callback. priceOk is whether the handler's read of the row's price works.
Edited(row, column, input, priceOk) ==
    LET committed == EditorValue(column, input)
        event == [row |-> row, column |-> column, value |-> committed]
        s0 == [table   |-> CellEdit(summary_table, row, column, committed),
               patches |-> patches,
               pie     |-> pie_chart,
               calls   |-> handlerCalls,
               writes  |-> valueWrites,
               emitted |-> <<>>,
               raised  |-> FALSE]
        s == on_edit(s0, <<event>>, priceOk, MaxDispatch)
    IN /\ column \in editors
       /\ userEdits < MaxEdits
       /\ userEdits' = userEdits + 1
       /\ summary_table' = s.table
       /\ patches' = s.patches
       /\ pie_chart' = s.pie
       /\ handlerCalls' = s.calls
       /\ valueWrites' = s.writes
       /\ lastEvent' = [row |-> row, column |-> column, typed |-> input,
                        value |-> committed, failed |-> s.raised]
       /\ UNCHANGED <<historical_data, selection, price_chart>>

EditQuantity ==
    \E row \in Rows : \E input \in Typed("quantity") :
        Edited(row, "quantity", input, TRUE)

EditAction ==
    \E row \in Rows : \E input \in Typed("action") :
        Edited(row, "action", input, TRUE)

EditNotes ==
    \E row \in Rows : \E input \in Typed("notes") :
        Edited(row, "notes", input, TRUE)

\* A quantity edit during which reading the row's price raises.
EditQuantityPriceFails ==
    \E row \in Rows : \E input \in Typed("quantity") :
        Edited(row, "quantity", input, FALSE)

\* The user selects a row or clears the selection (selectable=1);
\* candlestick is bound to the selection.
Select ==
    \E sel \in {<<>>} \cup {<<r>> : r \in Rows} :
        /\ sel # selection
        /\ selection' = sel
        /\ price_chart' = candlestick(sel, summary_table)
        /\ UNCHANGED <<historical_data, summary_table, patches, pie_chart,
                       lastEvent, userEdits, handlerCalls, valueWrites>>

Next ==
    \/ EditQuantity
    \/ EditAction
    \/ EditNotes
    \/ Select

Spec == Init /\ [][Next]_vars

NextFault ==
    \/ EditQuantity
    \/ EditAction
    \/ EditNotes
    \/ Select
    \/ EditQuantityPriceFails

SpecFault == Init /\ [][NextFault]_vars

TypeOK ==
    /\ patches \in 0 .. MaxEdits
    /\ userEdits \in 0 .. MaxEdits
    /\ \A r \in Rows : summary_table[r].quantity \in Nat

\* ------------------------------------------------------------- properties
\* The sum of the value column of the table as it stands.
Total == SumValue(summary_table, NumRows)

\* C1: after a quantity edit q of row r has been handled, value[r] equals
\* q * price[r] with price[r] as stored in the table, and the value of every
\* other row is what it was before the edit.
C1_QuantityEditSetsValue ==
    [][(/\ userEdits' = userEdits + 1
        /\ lastEvent'.column = "quantity"
        /\ ~lastEvent'.failed)
       => LET r == lastEvent'.row
              q == lastEvent'.typed
          IN /\ summary_table'[r].value = q * summary_table'[r].price
             /\ summary_table'[r].price = summary_table[r].price
             /\ \A o \in Rows \ {r} :
                    summary_table'[o].value = summary_table[o].value]_vars

C1_Witness ==
    /\ lastEvent.column = "quantity"
    /\ lastEvent.typed = 1
    /\ summary_table[lastEvent.row].value = summary_table[lastEvent.row].price
    /\ \E o \in Rows \ {lastEvent.row} :
          summary_table[o].value
            = InitialQuantity[o + 1] * summary_table[o].price

\* C2: the allocation chart of the latest evaluation shows the total of the
\* value column of the table as it stands: its total is the sum of value
\* over all rows, its title is that sum formatted, and its slices are the
\* rows' values, so it was evaluated after the value patch of the edit.
C2_ChartShowsCurrentTotal ==
    /\ pie_chart.total = Total
    /\ pie_chart.title = FormatTotal(Total)
    /\ \A r \in Rows : pie_chart.values[r] = summary_table[r].value

C2_Witness ==
    /\ lastEvent.column = "quantity"
    /\ patches > 0
    /\ summary_table[lastEvent.row].value
         # InitialQuantity[lastEvent.row + 1]
             * summary_table[lastEvent.row].price
    /\ pie_chart.total = Total

\* C3: the change counter never decreases, and each handled quantity edit
\* increases it by exactly 1.
C3_CounterStepsByOne ==
    [][/\ patches' >= patches
       /\ (/\ userEdits' = userEdits + 1
           /\ lastEvent'.column = "quantity"
           /\ ~lastEvent'.failed)
          => patches' = patches + 1]_vars

C3_Witness ==
    /\ lastEvent.column = "quantity"
    /\ patches = 2
    /\ userEdits = 2

\* C4 as claimed: an edit of a column other than quantity leaves every
\* row's value unchanged and increments the change counter by 1.
C4_Original ==
    [][(/\ userEdits' = userEdits + 1
        /\ lastEvent'.column \in {"action", "notes"})
       => /\ \A r \in Rows : summary_table'[r].value = summary_table[r].value
          /\ patches' = patches + 1]_vars

\* C4 as amended: an edit of a column other than quantity leaves every row's
\* value unchanged, leaves the change counter unchanged, and the allocation
\* chart is not evaluated again.
C4_OtherEditsLeaveCounter ==
    [][(/\ userEdits' = userEdits + 1
        /\ lastEvent'.column \in {"action", "notes"})
       => /\ \A r \in Rows : summary_table'[r].value = summary_table[r].value
          /\ patches' = patches
          /\ pie_chart' = pie_chart]_vars

C4_Witness ==
    /\ lastEvent.column = "action"
    /\ summary_table[lastEvent.row].action = lastEvent.value
    /\ summary_table[lastEvent.row].action # InitialAction[lastEvent.row + 1]
    /\ userEdits = 2
    /\ patches = 1

\* C5: the value patch raises no edit event: every cell edit runs
\* handle_cell_edit exactly once, and a quantity edit writes the value
\* column exactly once.
C5_NoReconciliationLoop ==
    [][(userEdits' = userEdits + 1)
       => /\ handlerCalls' = handlerCalls + 1
          /\ (lastEvent'.column = "quantity" /\ ~lastEvent'.failed)
                => valueWrites' = valueWrites + 1
          /\ (lastEvent'.column # "quantity")
                => valueWrites' = valueWrites]_vars

C5_Witness ==
    /\ lastEvent.column = "quantity"
    /\ userEdits = 2
    /\ handlerCalls = 2
    /\ valueWrites = 2

\* C6 as claimed: an edit that sets notes to more than maxlength characters
\* is rejected: no cell of the table changes and the change counter is not
\* incremented.
C6_Original ==
    [][(/\ userEdits' = userEdits + 1
        /\ lastEvent'.column = "notes"
        /\ Len(lastEvent'.typed) > maxlength)
       => /\ summary_table' = summary_table
          /\ patches' = patches]_vars

\* C6 as amended: an entry of more than maxlength characters into notes is
\* not rejected but cut to its first maxlength characters, which become the
\* notes of the edited row; no other cell changes, the change counter is not
\* incremented, and no notes cell is ever longer than maxlength.
C6_NotesCutToMaxLength ==
    [][(/\ userEdits' = userEdits + 1
        /\ lastEvent'.column = "notes"
        /\ Len(lastEvent'.typed) > maxlength)
       => LET r == lastEvent'.row
          IN /\ summary_table'[r].notes
                  = SubSeq(lastEvent'.typed, 1, maxlength)
             /\ \A o \in Rows : Len(summary_table'[o].notes) <= maxlength
             /\ summary_table'
                  = [summary_table EXCEPT ![r].notes = summary_table'[r].notes]
             /\ patches' = patches]_vars

C6_Witness ==
    /\ lastEvent.column = "notes"
    /\ Len(lastEvent.typed) = maxlength + 1
    /\ Len(summary_table[lastEvent.row].notes) = maxlength
    /\ patches = 0

\* C7: the price chart of the latest evaluation is for AAPL / Apple when
\* nothing is selected, and for the ticker and company of row i of the table
\* when the selection is [i].
C7_PriceChartFollowsSelection ==
    IF selection = <<>>
    THEN price_chart.ticker = "AAPL" /\ price_chart.company = "Apple"
    ELSE /\ price_chart.ticker = summary_table[selection[1]].ticker
         /\ price_chart.company = summary_table[selection[1]].company
         /\ price_chart.ticker = EQUITY_LIST[selection[1] + 1]

C7_Witness ==
    /\ selection = <<1>>
    /\ price_chart.ticker = "MSFT"
    /\ price_chart.company = "Microsoft"
    /\ userEdits > 0

\* C8: when the values of all rows sum to 0, the evaluation of the
\* allocation chart does not fail; the chart it returns has total 0 and
\* only empty slices.
C8_ZeroTotalChart ==
    (Total = 0)
       => /\ pie_chart.status = "ok"
          /\ pie_chart.total = 0
          /\ pie_chart.title = 0
          /\ \A r \in Rows : pie_chart.values[r] = 0

C8_Witness ==
    /\ Total = 0
    /\ \A r \in Rows : summary_table[r].quantity = 0
    /\ patches >= NumRows
    /\ pie_chart.status = "ok"

\* C9: in every state every row has value = quantity * price, and the
\* price, ticker and company of every row are those of construction.
C9_ValueIsQuantityTimesPrice ==
    \A r \in Rows :
        /\ summary_table[r].value
             = summary_table[r].quantity * summary_table[r].price
        /\ summary_table[r].ticker = EQUITY_LIST[r + 1]
        /\ summary_table[r].company = EQUITIES[r + 1]
        /\ summary_table[r].price = historical_data[EQUITY_LIST[r + 1]]

C9_Witness ==
    /\ userEdits >= 2
    /\ lastEvent.column = "quantity"
    /\ summary_table[lastEvent.row].quantity = lastEvent.value
    /\ summary_table[lastEvent.row].quantity
         # InitialQuantity[lastEvent.row + 1]
    /\ \E r \in Rows : summary_table[r].action # InitialAction[r + 1]

\* C10: when reading the row's price fails during a quantity edit, the value
\* patch is not applied, the change counter is not incremented, and the
\* table is as it was before the edit.
C10_FailedEditLeavesTable ==
    [][(/\ userEdits' = userEdits + 1
        /\ lastEvent'.failed)
       => /\ valueWrites' = valueWrites
          /\ patches' = patches
          /\ summary_table' = summary_table]_vars

====
